---- MODULE Spec2Model ----
(***************************************************************************)
(* Model of context_restore.py: a one-shot tool that looks for AGENTS.md,  *)
(* README.md and .serena/memories/ under the working directory, prints a   *)
(* summary and then dumps the documents.                                   *)
(*                                                                         *)
(* The filesystem is a state variable that no action changes (the tool     *)
(* only reads).  One action models one step of main(); the functions main  *)
(* calls are operators.  The standard output is a sequence of tokens, one  *)
(* token per print statement (or group of adjacent print statements).      *)
(***************************************************************************)
EXTENDS Integers, Sequences, FiniteSets, TLC

VARIABLES
    fs,             \* the filesystem under the working directory (read-only)
    pc,             \* position of main()
    agents_md,      \* main's local agents_md   ("None" or a path)
    readme,         \* main's local readme      ("None" or a path)
    context_dir,    \* main's local context_dir ("None" or a path)
    metadata,       \* main's local metadata    (a Python value, see PyNone)
    context_files,  \* main's local context_files (line 172), a sequence of names
    idx,            \* position of the for loop of line 175 in context_files
    out,            \* standard output so far, a sequence of tokens
    ret,            \* main's return value; -1 while main has not returned
    raised,         \* "" or the exception that left main uncaught
    steps,          \* history: the steps of main() executed so far, in order
    run,            \* 1 for the first invocation, 2 for a second one
    prev            \* outcome of the first invocation, once a second has begun

vars == <<fs, pc, agents_md, readme, context_dir, metadata, context_files,
          idx, out, ret, raised, steps, run, prev>>

-----------------------------------------------------------------------------
(* Bounds *)

\* Largest number of entries of .serena/memories other than .gitkeep and
\* metadata.json.
MaxEntries == 2

-----------------------------------------------------------------------------
(* File names.  A name is the sequence of its code points, so that the    *)
(* order sorted() uses (Python compares str by code point) can be computed.*)

GITKEEP == <<46, 103, 105, 116, 107, 101, 101, 112>>            \* ".gitkeep"
METADATA_JSON == <<109, 101, 116, 97, 100, 97, 116, 97, 46, 106, 115, 111, 110>>
                                                             \* "metadata.json"
NAME_a_md == <<97, 46, 109, 100>>                               \* "a.md"
NAME_b_md == <<98, 46, 109, 100>>                               \* "b.md"
NAME_B_md == <<66, 46, 109, 100>>                               \* "B.md"

OtherNames == {NAME_a_md, NAME_b_md, NAME_B_md}
AllNames == {GITKEEP, METADATA_JSON} \cup OtherNames

-----------------------------------------------------------------------------
(* The filesystem.                                                         *)
(*   kind of a path: "absent"     nothing there                            *)
(*                   "file"       a regular file that can be read as text  *)
(*                   "unreadable" a regular file whose open()/read() fails *)
(*                                (no permission, or not decodable)        *)
(*                   "dir"        a directory                              *)
(* ctx is the kind of .serena/memories ("absent", "file" or "dir");         *)
(* listable says whether iterdir() on it succeeds (a directory without    *)
(* read permission can be searched by name but not listed); entries gives  *)
(* the kind of each of its entries.                                        *)
(* The content of metadata.json, when it is a readable file, is one of     *)
(*   "malformed"  not JSON                                                 *)
(*   "dict"       a JSON object with the keys in metaKeys                  *)
(*   "list"       JSON that is not an object and is truthy, e.g. [1]       *)
(*   "falsy"      JSON that is not an object and is falsy, e.g. [] or 0    *)

Kinds == {"absent", "file", "unreadable", "dir"}
\* the keys an object in metadata.json may have: the two the summary reads,
\* and one it does not
MetaKeys == {"created_at", "project_root", "version"}
MetaContents == {"malformed", "dict", "list", "falsy"}

Present(e) == {n \in AllNames : e[n] # "absent"}

\* metadata.json: its kind and, for a readable file, what it holds (the
\* keys, for an object)
MetaFiles ==
    {[kind |-> k, content |-> "malformed", keys |-> {}] :
        k \in {"absent", "unreadable", "dir"}}
    \cup {[kind |-> "file", content |-> c, keys |-> {}] : c \in MetaContents \ {"dict"}}
    \cup {[kind |-> "file", content |-> "dict", keys |-> ks] : ks \in SUBSET MetaKeys}

\* the entries of .serena/memories other than .gitkeep and metadata.json
OtherEntries ==
    {o \in [OtherNames -> Kinds] :
        Cardinality({n \in OtherNames : o[n] # "absent"}) <= MaxEntries}

NoOthers == [n \in OtherNames |-> "absent"]

Entries(gitkeep, meta, others) ==
    [n \in AllNames |->
        IF n = GITKEEP THEN gitkeep
        ELSE IF n = METADATA_JSON THEN meta
        ELSE others[n]]

NoEntries == Entries("absent", "absent", NoOthers)

\* Without a reference directory there are no entries.
FsStates ==
    {[agents |-> a, readme |-> r, ctx |-> "dir", listable |-> l,
      entries |-> Entries(g, m.kind, o), metaContent |-> m.content,
      metaKeys |-> m.keys] :
        a \in Kinds, r \in Kinds, l \in BOOLEAN, g \in {"absent", "file"},
        m \in MetaFiles, o \in OtherEntries}
    \cup
    {[agents |-> a, readme |-> r, ctx |-> x, listable |-> TRUE,
      entries |-> NoEntries, metaContent |-> "malformed", metaKeys |-> {}] :
        a \in Kinds, r \in Kinds, x \in {"absent", "file"}}

-----------------------------------------------------------------------------
(* Python values and output tokens *)

PyNone == [kind |-> "None", keys |-> {}]

\* bool(metadata), as `if metadata:` evaluates it
Truthy(m) ==
    \/ m.kind = "list"
    \/ m.kind = "dict" /\ m.keys # {}

Tok(t, n, v) == [t |-> t, n |-> n, v |-> v]
T(t) == Tok(t, <<>>, "")

\* the text a file holds, named by the path it is read from
TextOf(path, n) == Tok("text", n, path)

MetaValue(key) ==
    CASE key = "created_at" -> "2024-01-01"
      [] key = "project_root" -> "/tmp/x"
      [] OTHER -> "1"

\* dict.get(key, 'Unknown')
Get(m, key) == IF key \in m.keys THEN MetaValue(key) ELSE "Unknown"

-----------------------------------------------------------------------------
(* Path resolver *)

\* Path.exists()
Exists(kind) == kind # "absent"
\* Path.is_dir()
IsDir(kind) == kind = "dir"
\* Path.is_file()
IsFile(kind) == kind \in {"file", "unreadable"}
\* open(path, 'r') followed by read() succeeds
Readable(kind) == kind = "file"

\* find_agents_md without the exists() test of line 20
find_agents_md_unchecked == "AGENTS.md"

find_agents_md == IF Exists(fs.agents) THEN "AGENTS.md" ELSE "None"

find_readme == IF Exists(fs.readme) THEN "README.md" ELSE "None"

find_context_directory ==
    IF Exists(fs.ctx) /\ IsDir(fs.ctx) THEN ".serena/memories" ELSE "None"

-----------------------------------------------------------------------------
(* Metadata loader: the value returned and what it prints *)

\* load_metadata with a handler (lines 56-58) that prints nothing
load_metadata_silent ==
    IF ~Exists(fs.entries[METADATA_JSON])
    THEN [value |-> PyNone, printed |-> <<>>]
    ELSE IF Readable(fs.entries[METADATA_JSON]) /\ fs.metaContent # "malformed"
         THEN [value |-> [kind |-> fs.metaContent, keys |-> fs.metaKeys],
               printed |-> <<>>]
         ELSE [value |-> PyNone, printed |-> <<>>]

load_metadata ==
    IF ~Exists(fs.entries[METADATA_JSON])
    THEN [value |-> PyNone, printed |-> <<>>]
    ELSE IF Readable(fs.entries[METADATA_JSON]) /\ fs.metaContent # "malformed"
         THEN [value |-> [kind |-> fs.metaContent, keys |-> fs.metaKeys],
               printed |-> <<>>]
         ELSE [value |-> PyNone, printed |-> <<T("warning")>>]

-----------------------------------------------------------------------------
(* Reference lister *)

RECURSIVE NameLess(_, _)
\* a < b for two str (code point by code point, a proper prefix first)
NameLess(a, b) ==
    IF a = <<>> THEN b # <<>>
    ELSE IF b = <<>> THEN FALSE
    ELSE IF Head(a) # Head(b) THEN Head(a) < Head(b)
    ELSE NameLess(Tail(a), Tail(b))

RECURSIVE Insert_descending(_, _)
\* the insertion of sorted(files, reverse=True)
Insert_descending(x, s) ==
    IF s = <<>> THEN <<x>>
    ELSE IF NameLess(Head(s), x) THEN <<x>> \o s
    ELSE <<Head(s)>> \o Insert_descending(x, Tail(s))

RECURSIVE Insert(_, _)
Insert(x, s) ==
    IF s = <<>> THEN <<x>>
    ELSE IF NameLess(x, Head(s)) THEN <<x>> \o s
    ELSE <<Head(s)>> \o Insert(x, Tail(s))

RECURSIVE sorted(_)
sorted(s) == IF s = <<>> THEN <<>> ELSE Insert(Head(s), sorted(Tail(s)))

RECURSIVE Perms(_)
Perms(S) ==
    IF S = {} THEN {<<>>}
    ELSE UNION {{<<x>> \o p : p \in Perms(S \ {x})} : x \in S}

\* the orders in which context_dir.iterdir() may yield the entries
iterdir == Perms(Present(fs.entries))

\* line 66 without the test of the name
Keep_any_file(n) == IsFile(fs.entries[n])

\* line 66
Keep(n) == IsFile(fs.entries[n]) /\ n \notin {GITKEEP, METADATA_JSON}

\* lines 63-69 returning files instead of sorted(files)
list_context_files_unsorted(order) == SelectSeq(order, Keep)

\* lines 63-69, for the order `order` of iterdir()
list_context_files(order) == sorted(SelectSeq(order, Keep))

-----------------------------------------------------------------------------
(* Summary renderer: what it prints, and the exception it ends with ("" if *)
(* it returns)                                                             *)

RefItems(files) == [i \in 1..Len(files) |-> Tok("summary_ref", files[i], "")]

\* lines 96-107
SummaryDirPart(cdir, order) ==
    IF cdir = "None" THEN [printed |-> <<T("summary_no_dir")>>, raised |-> ""]
    ELSE IF ~fs.listable THEN [printed |-> <<>>, raised |-> "PermissionError"]
    ELSE LET files == list_context_files(order)
         IN  [printed |-> <<T("summary_dir"), Tok("summary_count", <<>>, ToString(Len(files)))>>
                           \o (IF files # <<>> THEN <<T("summary_refs_header")>> \o RefItems(files)
                               ELSE <<>>),
              raised |-> ""]

\* lines 80-82
SummaryMetaPart(m) ==
    IF ~Truthy(m) THEN [printed |-> <<>>, raised |-> ""]
    ELSE IF m.kind # "dict" THEN [printed |-> <<>>, raised |-> "AttributeError"]
    ELSE [printed |-> <<Tok("summary_created_at", <<>>, Get(m, "created_at")),
                        Tok("summary_project_root", <<>>, Get(m, "project_root"))>>,
          raised |-> ""]

display_context_summary(amd, rd, cdir, m, order) ==
    LET head == <<T("summary_begin")>>
        meta == SummaryMetaPart(m)
        mid  == (IF rd # "None" THEN <<T("summary_readme")>> ELSE <<>>)
                \o <<T("summary_agents")>>
        dir  == SummaryDirPart(cdir, order)
    IN  IF meta.raised # "" THEN [printed |-> head, raised |-> meta.raised]
        ELSE IF dir.raised # ""
             THEN [printed |-> head \o meta.printed \o mid, raised |-> dir.raised]
        ELSE [printed |-> head \o meta.printed \o mid \o dir.printed
                           \o <<T("summary_end")>>,
              raised |-> ""]

-----------------------------------------------------------------------------
(* Content reads *)

\* read_agents_md opening another document than the one it is given
read_agents_md_other(amd) == TextOf("README.md", <<>>)

\* lines 112-115
read_agents_md(amd) == TextOf(amd, <<>>)

-----------------------------------------------------------------------------
(* main(), one action per step *)

Locals == <<agents_md, readme, context_dir, metadata, context_files, idx>>

Init ==
    /\ fs \in FsStates
    /\ pc = "resolve_root"
    /\ agents_md = "None"
    /\ readme = "None"
    /\ context_dir = "None"
    /\ metadata = PyNone
    /\ context_files = <<>>
    /\ idx = 1
    /\ out = <<>>
    /\ ret = -1
    /\ raised = ""
    /\ steps = <<>>
    /\ run = 1
    /\ prev = [out |-> <<>>, ret |-> -1, raised |-> ""]

\* an uncaught exception leaves main: nothing after it runs
Raise(exc, printed) ==
    /\ out' = out \o printed
    /\ raised' = exc
    /\ pc' = "done"
    /\ ret' = ret

\* lines 122-124
ResolveRoot ==
    /\ pc = "resolve_root"
    /\ steps' = Append(steps, "resolve_root")
    /\ out' = out \o <<T("searching")>>
    /\ pc' = "locate_primary"
    /\ UNCHANGED <<fs, Locals, ret, raised, run, prev>>

\* lines 127-133
LocatePrimary ==
    /\ pc = "locate_primary"
    /\ steps' = Append(steps, "locate_primary")
    /\ agents_md' = find_agents_md
    /\ IF agents_md' = "None"
       THEN /\ out' = out \o <<T("not_found"), T("hint_context_save")>>
            /\ ret' = 1
            /\ pc' = "done"
       ELSE /\ pc' = "locate_others"
            /\ UNCHANGED <<out, ret>>
    /\ UNCHANGED <<fs, readme, context_dir, metadata, context_files, idx,
                   raised, run, prev>>

\* lines 136-139
LocateOthers ==
    /\ pc = "locate_others"
    /\ steps' = Append(steps, "locate_others")
    /\ readme' = find_readme
    /\ context_dir' = find_context_directory
    /\ pc' = "load_metadata"
    /\ UNCHANGED <<fs, agents_md, metadata, context_files, idx, out, ret,
                   raised, run, prev>>

\* lines 142-144 without the test of line 143
LoadMetadata_unguarded ==
    /\ pc = "load_metadata"
    /\ metadata' = load_metadata.value
    /\ out' = out \o load_metadata.printed
    /\ steps' = Append(steps, "load_metadata")
    /\ pc' = "summary"
    /\ UNCHANGED <<fs, agents_md, readme, context_dir, context_files, idx,
                   ret, raised, run, prev>>

\* lines 142-144
LoadMetadata ==
    /\ pc = "load_metadata"
    /\ IF context_dir # "None"
       THEN /\ metadata' = load_metadata.value
            /\ out' = out \o load_metadata.printed
            /\ steps' = Append(steps, "load_metadata")
       ELSE /\ metadata' = PyNone
            /\ out' = out
            /\ steps' = steps
    /\ pc' = "summary"
    /\ UNCHANGED <<fs, agents_md, readme, context_dir, context_files, idx,
                   ret, raised, run, prev>>

\* line 147
DisplaySummary ==
    /\ pc = "summary"
    /\ steps' = Append(steps, "summary")
    /\ \E order \in iterdir :
         LET s == display_context_summary(agents_md, readme, context_dir,
                                          metadata, order)
         IN  IF s.raised # ""
             THEN Raise(s.raised, s.printed)
             ELSE /\ out' = out \o s.printed
                  /\ pc' = "dump_readme"
                  /\ UNCHANGED <<ret, raised>>
    /\ UNCHANGED <<fs, Locals, run, prev>>

\* lines 150-158 with the read of line 155-156 in a try/except that goes on
DumpReadme_caught ==
    /\ pc = "dump_readme"
    /\ steps' = IF readme = "None" THEN steps ELSE Append(steps, "dump_readme")
    /\ IF readme = "None"
       THEN out' = out
       ELSE IF ~Readable(fs.readme)
            THEN out' = out \o <<T("readme_banner"), T("readme_close")>>
            ELSE out' = out \o <<T("readme_banner"), TextOf(readme, <<>>),
                                 T("readme_close")>>
    /\ pc' = "dump_agents"
    /\ UNCHANGED <<fs, Locals, ret, raised, run, prev>>

\* lines 150-158
DumpReadme ==
    /\ pc = "dump_readme"
    /\ steps' = IF readme = "None" THEN steps ELSE Append(steps, "dump_readme")
    /\ IF readme = "None"
       THEN /\ pc' = "dump_agents"
            /\ UNCHANGED <<out, ret, raised>>
       ELSE IF ~Readable(fs.readme)
            THEN Raise("ReadError", <<T("readme_banner")>>)
            ELSE /\ out' = out \o <<T("readme_banner"), TextOf(readme, <<>>),
                                    T("readme_close")>>
                 /\ pc' = "dump_agents"
                 /\ UNCHANGED <<ret, raised>>
    /\ UNCHANGED <<fs, Locals, run, prev>>

\* lines 161-168
DumpAgents ==
    /\ pc = "dump_agents"
    /\ steps' = Append(steps, "dump_agents")
    /\ IF ~Readable(fs.agents)
       THEN Raise("ReadError", <<T("agents_banner")>>)
       ELSE /\ out' = out \o <<T("agents_banner"), read_agents_md(agents_md),
                               T("agents_close")>>
            /\ pc' = "list_references"
            /\ UNCHANGED <<ret, raised>>
    /\ UNCHANGED <<fs, Locals, run, prev>>

\* lines 171-174
ListReferences ==
    /\ pc = "list_references"
    /\ steps' = Append(steps, "list_references")
    /\ IF context_dir = "None"
       THEN /\ pc' = "complete"
            /\ UNCHANGED <<context_files, out, ret, raised>>
       ELSE IF ~fs.listable
            THEN /\ Raise("PermissionError", <<>>)
                 /\ UNCHANGED context_files
            ELSE \E order \in iterdir :
                    /\ context_files' = list_context_files(order)
                    /\ pc' = IF context_files' # <<>> THEN "dump_reference"
                             ELSE "complete"
                    /\ UNCHANGED <<out, ret, raised>>
    /\ idx' = 1
    /\ UNCHANGED <<fs, agents_md, readme, context_dir, metadata, run, prev>>

\* lines 175-183, one iteration
DumpReference ==
    /\ pc = "dump_reference"
    /\ steps' = Append(steps, "dump_reference")
    /\ LET file == context_files[idx]
       IN  IF ~Readable(fs.entries[file])
           THEN /\ Raise("ReadError", <<Tok("reference_banner", file, "")>>)
                /\ UNCHANGED idx
           ELSE /\ out' = out \o <<Tok("reference_banner", file, ""),
                                   TextOf(context_dir, file),
                                   Tok("reference_close", file, "")>>
                /\ idx' = idx + 1
                /\ pc' = IF idx < Len(context_files) THEN "dump_reference"
                         ELSE "complete"
                /\ UNCHANGED <<ret, raised>>
    /\ UNCHANGED <<fs, agents_md, readme, context_dir, metadata,
                   context_files, run, prev>>

\* lines 185-188
Complete ==
    /\ pc = "complete"
    /\ steps' = Append(steps, "complete")
    /\ out' = out \o <<T("complete")>>
    /\ ret' = 0
    /\ pc' = "done"
    /\ UNCHANGED <<fs, Locals, raised, run, prev>>

Next ==
    \/ ResolveRoot
    \/ LocatePrimary
    \/ LocateOthers
    \/ LoadMetadata
    \/ DisplaySummary
    \/ DumpReadme
    \/ DumpAgents
    \/ ListReferences
    \/ DumpReference
    \/ Complete

Spec == Init /\ [][Next]_vars

\* main() is the whole program and nothing in it waits: a step that can be
\* taken is taken.
LiveSpec == Spec /\ WF_vars(Next)

\* lines 191-192, a second time: the tool is invoked again on the same
\* filesystem once the first invocation has ended
Rerun ==
    /\ pc = "done"
    /\ run = 1
    /\ run' = 2
    /\ prev' = [out |-> out, ret |-> ret, raised |-> raised]
    /\ pc' = "resolve_root"
    /\ agents_md' = "None"
    /\ readme' = "None"
    /\ context_dir' = "None"
    /\ metadata' = PyNone
    /\ context_files' = <<>>
    /\ idx' = 1
    /\ out' = <<>>
    /\ ret' = -1
    /\ raised' = ""
    /\ steps' = <<>>
    /\ UNCHANGED fs

NextTwice ==
    \/ Next
    \/ Rerun

SpecTwice == Init /\ [][NextTwice]_vars

-----------------------------------------------------------------------------
(* Vocabulary of the properties *)

Terminated == pc = "done"

\* positions of the tokens of type t in the output
Pos(t) == {i \in DOMAIN out : out[i].t = t}
Count(t) == Cardinality(Pos(t))
Printed(t) == Pos(t) # {}

\* positions of the tokens of type t about the entry n
PosOf(t, n) == {i \in DOMAIN out : out[i].t = t /\ out[i].n = n}

SummaryTokens ==
    {"summary_begin", "summary_created_at", "summary_project_root",
     "summary_readme", "summary_agents", "summary_dir", "summary_count",
     "summary_refs_header", "summary_ref", "summary_no_dir", "summary_end"}
BannerTokens == {"readme_banner", "agents_banner", "reference_banner"}
ContentTokens ==
    BannerTokens \cup {"text", "readme_close", "agents_close", "reference_close"}

\* the reference files of the filesystem: regular files directly in
\* .serena/memories that are named neither .gitkeep nor metadata.json
ReferenceFiles ==
    IF fs.ctx # "dir" THEN {}
    ELSE {n \in OtherNames : fs.entries[n] \in {"file", "unreadable"}}

\* metadata.json exists in the reference directory
MetadataFileExists == fs.ctx = "dir" /\ fs.entries[METADATA_JSON] # "absent"

\* metadata.json is a readable file whose text is not JSON
MetadataNotJson ==
    /\ MetadataFileExists
    /\ fs.entries[METADATA_JSON] = "file"
    /\ fs.metaContent = "malformed"

\* metadata.json is a readable file holding a JSON object
MetadataIsObject ==
    /\ MetadataFileExists
    /\ fs.entries[METADATA_JSON] = "file"
    /\ fs.metaContent = "dict"

\* the step s of main() has been executed
Did(s) == \E i \in DOMAIN steps : steps[i] = s

\* the positions of the output that hold the text of AGENTS.md
AgentsTextPos == {i \in DOMAIN out : out[i] = Tok("text", <<>>, "AGENTS.md")}

\* No step of the pipeline meets an error it does not catch: every document
\* to dump is a readable regular file, the reference directory can be
\* listed, and metadata.json did not parse to a truthy value without .get.
NothingFails ==
    /\ fs.agents = "file"
    /\ fs.readme \in {"absent", "file"}
    /\ fs.ctx = "dir" =>
          /\ fs.listable
          /\ \A n \in OtherNames : fs.entries[n] # "unreadable"
          /\ ~(fs.entries[METADATA_JSON] = "file" /\ fs.metaContent = "list")

-----------------------------------------------------------------------------
(* The claims *)

\* C1: whenever AGENTS.md is absent from the working directory, the output
\* never holds a token of the summary block or of a content section, and
\* once main() has ended it has returned 1 (and no exception left it),
\* whatever README.md, .serena/memories, metadata.json and the reference
\* files are.
C1_AbsentPrimaryReturnsOne ==
    fs.agents = "absent" =>
        /\ \A i \in DOMAIN out : out[i].t \notin SummaryTokens \cup ContentTokens
        /\ Terminated => (ret = 1 /\ raised = "")

C1_Witness ==
    /\ Terminated
    /\ fs.agents = "absent"
    /\ fs.readme = "file"
    /\ ReferenceFiles # {}
    /\ MetadataIsObject
    /\ Printed("not_found")

\* the working directory holds a regular file AGENTS.md and nothing else
OnlyAgentsExists ==
    /\ fs.agents \in {"file", "unreadable"}
    /\ fs.readme = "absent"
    /\ fs.ctx = "absent"

\* C2 as stated (whenever AGENTS.md is present, the run that has ended has
\* returned 0 and has emitted one AGENTS.MD CONTENT section with the text of
\* AGENTS.md exactly once, whatever else exists), taken for a working
\* directory that holds a regular file AGENTS.md and nothing else.
C2_PresentPrimaryReturnsZero ==
    (fs.agents # "absent" /\ OnlyAgentsExists /\ Terminated) =>
        /\ ret = 0
        /\ Count("agents_banner") = 1
        /\ Cardinality(AgentsTextPos) = 1

\* C2 amended: when AGENTS.md is present, the AGENTS.MD CONTENT section and
\* the text of AGENTS.md are emitted at most once; the run never takes the
\* not-found exit; it returns 0 exactly when no step meets an uncaught error
\* (NothingFails), and then the section and the text were emitted exactly
\* once; otherwise an exception has left main().
C2_PresentPrimaryReturnsZeroUnlessFailure ==
    fs.agents # "absent" =>
        /\ Count("agents_banner") <= 1
        /\ Cardinality(AgentsTextPos) <= 1
        /\ Terminated =>
              /\ ret # 1
              /\ ret = 0 <=> NothingFails
              /\ ret = 0 => (Count("agents_banner") = 1 /\ Cardinality(AgentsTextPos) = 1)
              /\ ret # 0 => raised # ""

C2_Witness ==
    /\ Terminated
    /\ ret = 0
    /\ fs.readme = "file"
    /\ ReferenceFiles # {}
    /\ Cardinality(AgentsTextPos) = 1

\* C3 as stated (with AGENTS.md present and a metadata.json that is not
\* JSON, loading the metadata prints a warning, the summary shows created_at
\* and project_root as "Unknown", and the run that has ended has returned
\* 0), taken where no other step meets an error.
C3_MalformedMetadataShowsUnknown ==
    (MetadataNotJson /\ fs.agents # "absent" /\ NothingFails) =>
        /\ Did("load_metadata") => Printed("warning")
        /\ Printed("summary_end") =>
              /\ \E i \in Pos("summary_created_at") : out[i].v = "Unknown"
              /\ \E i \in Pos("summary_project_root") : out[i].v = "Unknown"
        /\ Terminated => ret = 0

\* C3 amended: with AGENTS.md present and a metadata.json that is not JSON,
\* loading the metadata prints one warning and yields None; the summary then
\* prints no created_at line and no project_root line at all; the failure to
\* load does not end the run: it returns 0 exactly when no other step meets
\* an uncaught error.
C3_MalformedMetadataIsAbsent ==
    (MetadataNotJson /\ fs.agents # "absent") =>
        /\ Did("load_metadata") => (Count("warning") = 1 /\ metadata = PyNone)
        /\ ~Printed("summary_created_at")
        /\ ~Printed("summary_project_root")
        /\ Terminated =>
              /\ Printed("warning")
              /\ ret # 1
              /\ ret = 0 <=> NothingFails

C3_Witness ==
    /\ Terminated
    /\ MetadataNotJson
    /\ ret = 0
    /\ Printed("warning")
    /\ Printed("summary_end")

IsBanner(x) == x.t \in BannerTokens

\* C4: in every run that returned 0 the content sections are, in this order:
\* the readme section if and only if README.md exists, the AGENTS.md
\* section, then one section per reference file, in strictly ascending
\* order of the file names (code point order), whatever orders iterdir()
\* produced.
C4_SectionOrder ==
    ret = 0 =>
        LET s == SelectSeq(out, IsBanner)
            k == IF fs.readme # "absent" THEN 1 ELSE 0
        IN  /\ Len(s) = k + 1 + Cardinality(ReferenceFiles)
            /\ k = 1 => s[1].t = "readme_banner"
            /\ s[k + 1].t = "agents_banner"
            /\ \A i \in (k + 2)..Len(s) :
                  s[i].t = "reference_banner" /\ s[i].n \in ReferenceFiles
            /\ \A i, j \in (k + 2)..Len(s) : i < j => NameLess(s[i].n, s[j].n)

C4_Witness ==
    /\ ret = 0
    /\ fs.readme = "file"
    /\ Cardinality(ReferenceFiles) >= 2
    /\ fs.entries[GITKEEP] = "file"
    /\ Count("reference_close") >= 2

\* the tokens that name an entry of the reference directory
NamesEntry(x) ==
    x.t \in {"summary_ref", "reference_banner", "reference_close"}
    \/ (x.t = "text" /\ x.n # <<>>)

\* .gitkeep, metadata.json and the entries that are not regular files are
\* never listed in the summary nor dumped, and the count of the summary is
\* the number of reference files
ReservedNeverShown ==
    /\ \A i \in DOMAIN out : NamesEntry(out[i]) => out[i].n \in ReferenceFiles
    /\ \A i \in Pos("summary_count") :
          out[i].v = ToString(Cardinality(ReferenceFiles))

\* C5 as stated (.gitkeep, metadata.json and non-regular entries are never
\* counted, listed or dumped, and once the run has ended every other regular
\* file of the directory has been listed in the summary and dumped exactly
\* once), taken where AGENTS.md and README.md are readable regular files,
\* the directory can be listed and there is no metadata.json.
C5_ReferenceFilesShownOnce ==
    /\ ReservedNeverShown
    /\ (/\ Terminated
        /\ fs.agents = "file"
        /\ fs.readme = "file"
        /\ fs.listable
        /\ ~MetadataFileExists) =>
          \A n \in ReferenceFiles :
              /\ Cardinality(PosOf("summary_ref", n)) = 1
              /\ Cardinality(PosOf("reference_banner", n)) = 1
              /\ Cardinality(PosOf("text", n)) = 1

\* C5 amended: .gitkeep, metadata.json and non-regular entries are never
\* counted, listed or dumped; no reference file is listed or dumped twice;
\* every reference file is counted and listed exactly once in every summary
\* that completes, and dumped exactly once in every run that returns 0.
C5_ReferenceFilesShownOnceOnSuccess ==
    /\ ReservedNeverShown
    /\ \A n \in ReferenceFiles :
          /\ Cardinality(PosOf("summary_ref", n)) <= 1
          /\ Cardinality(PosOf("reference_banner", n)) <= 1
          /\ Cardinality(PosOf("text", n)) <= 1
          /\ Printed("summary_end") => Cardinality(PosOf("summary_ref", n)) = 1
          /\ ret = 0 =>
                /\ Cardinality(PosOf("reference_banner", n)) = 1
                /\ Cardinality(PosOf("text", n)) = 1
    /\ Printed("summary_end") => (Count("summary_count") = 1 <=> fs.ctx = "dir")

C5_Witness ==
    /\ ret = 0
    /\ fs.entries[GITKEEP] = "file"
    /\ fs.entries[METADATA_JSON] = "file"
    /\ \E n \in OtherNames : fs.entries[n] = "dir"
    /\ ReferenceFiles # {}
    /\ \A n \in ReferenceFiles : Cardinality(PosOf("text", n)) = 1

\* C6: when the tool has run twice on the same filesystem, the second run
\* ends as the first did: same return value or same uncaught exception, and
\* the same output, token for token, whatever orders iterdir() produced in
\* the two runs.
C6_SameOutcomeTwice ==
    (run = 2 /\ Terminated) =>
        /\ out = prev.out
        /\ ret = prev.ret
        /\ raised = prev.raised

C6_Witness ==
    /\ run = 2
    /\ Terminated
    /\ ret = 0
    /\ Cardinality(ReferenceFiles) >= 2
    /\ Len(out) > 0

\* the value dict.get(key, 'Unknown') has for the object in metadata.json
ExpectedField(key) == IF key \in fs.metaKeys THEN MetaValue(key) ELSE "Unknown"

\* C7: whenever metadata.json holds a JSON object (the empty object and
\* objects without created_at or project_root included) and the summary has
\* been rendered, the output holds a created_at line and a project_root
\* line, each with the value of the key, or "Unknown" when the key is
\* missing.  Stated for the runs in which no step meets an error.
C7_ParsedMetadataPrintsBothLines ==
    (MetadataIsObject /\ NothingFails /\ Printed("summary_end")) =>
        /\ \E i \in Pos("summary_created_at") : out[i].v = ExpectedField("created_at")
        /\ \E i \in Pos("summary_project_root") : out[i].v = ExpectedField("project_root")

\* C8: the path resolver returns the path of AGENTS.md (of README.md) only
\* when a regular file of that name exists; when AGENTS.md is absent or is
\* not a regular file, the run that has ended has returned 1 after the
\* not-found message.
C8_ResolverRequiresRegularFile ==
    /\ Did("locate_primary") => (agents_md # "None" <=> IsFile(fs.agents))
    /\ Did("locate_others") => (readme # "None" <=> IsFile(fs.readme))
    /\ (Terminated /\ ~IsFile(fs.agents)) => (ret = 1 /\ Printed("not_found"))

\* a document that the content dump opens cannot be read
SomeDumpedDocumentUnreadable ==
    \/ fs.readme \in {"unreadable", "dir"}
    \/ fs.agents \in {"unreadable", "dir"}
    \/ \E n \in ReferenceFiles : fs.entries[n] = "unreadable"

\* every content section of the output is whole: banner, text, closing line
SectionsWhole ==
    \A i \in DOMAIN out :
        IsBanner(out[i]) =>
            /\ i + 2 <= Len(out)
            /\ out[i + 1].t = "text"
            /\ out[i + 2].t \in {"readme_close", "agents_close", "reference_close"}

\* C9: a read that fails while a document is dumped leaves main() as an
\* uncaught exception: the run is over, main() has returned neither 0 nor 1,
\* neither the completion message nor the not-found message is printed, and
\* the banner of the section that failed is the last thing printed (no
\* later section follows).  A run over a filesystem with an unreadable
\* document to dump never returns 0, and a run that returned 0 has dumped
\* every document whole: README.md if it exists, AGENTS.md, and every
\* reference file.
C9_ReadFailureAborts ==
    /\ raised = "ReadError" =>
          /\ Terminated
          /\ ret = -1
          /\ ~Printed("complete")
          /\ ~Printed("not_found")
          /\ IsBanner(out[Len(out)])
    /\ (Terminated /\ fs.agents # "absent" /\ SomeDumpedDocumentUnreadable) =>
          (ret = -1 /\ raised # "" /\ ~Printed("complete"))
    /\ ret = 0 =>
          /\ SectionsWhole
          /\ Count("agents_close") = 1
          /\ fs.readme # "absent" => Count("readme_close") = 1
          /\ \A n \in ReferenceFiles : Cardinality(PosOf("reference_close", n)) = 1

C9_Witness ==
    /\ raised = "ReadError"
    /\ Count("agents_close") = 1
    /\ Count("reference_close") = 1
    /\ out[Len(out)].t = "reference_banner"

\* the place of a step in main()
StepRank(s) ==
    CASE s = "resolve_root" -> 1
      [] s = "locate_primary" -> 2
      [] s = "locate_others" -> 3
      [] s = "load_metadata" -> 4
      [] s = "summary" -> 5
      [] s = "dump_readme" -> 6
      [] s = "dump_agents" -> 7
      [] s = "list_references" -> 8
      [] s = "dump_reference" -> 9
      [] s = "complete" -> 10

\* C10 as stated (the summary is rendered exactly once, the completion
\* message is printed after the last content section, and the run ends early
\* only through the primary-document-absent branch), taken for a working
\* directory that holds a regular file AGENTS.md and nothing else.
C10_OnlyEarlyExitIsNotFound ==
    (Terminated /\ OnlyAgentsExists) =>
        /\ Count("summary_begin") = 1
        /\ Count("summary_end") = 1
        /\ Printed("complete")
        /\ ret = 0

\* the steps executed so far are in the order of main(), none twice but for
\* the iterations of the reference loop
ForwardPass ==
    \A i, j \in DOMAIN steps :
        i < j =>
            \/ StepRank(steps[i]) < StepRank(steps[j])
            \/ (steps[i] = "dump_reference" /\ steps[j] = "dump_reference")

C10_Order ==
    /\ ForwardPass
    /\ Did("load_metadata") => (context_dir # "None" /\ fs.ctx = "dir")
    /\ Count("warning") <= 1
    /\ \A i \in Pos("warning"), j \in Pos("summary_begin") : i < j
    /\ Count("summary_begin") <= 1
    /\ Count("summary_end") <= 1
    /\ \A i, j \in DOMAIN out :
          (out[i].t \in SummaryTokens /\ out[j].t \in ContentTokens) => i < j
    /\ Count("complete") <= 1
    /\ \A i \in Pos("complete") : i = Len(out)
    /\ ret = 0 =>
          /\ Count("summary_begin") = 1
          /\ Count("summary_end") = 1
          /\ Printed("complete")
          /\ Did("dump_agents")
    /\ Terminated =>
          \/ ret = 0
          \/ (ret = 1 /\ agents_md = "None" /\ steps = <<"resolve_root", "locate_primary">>)
          \/ (ret = -1 /\ raised # "")

\* C10 amended: every run is a single forward pass: the steps execute in the
\* order of main(), each at most once (the reference loop once per file);
\* metadata is loaded only if the reference directory is present, and before
\* the summary; the summary is rendered at most once, before any content
\* section, and exactly once in a run that returns 0; the completion message
\* is the last thing printed and is printed in every run that returns 0; a
\* run ends early through the primary-document-absent branch or through an
\* uncaught exception, and in no other way; every run eventually ends.
C10_SinglePass == []C10_Order /\ <>Terminated

C10_Witness ==
    /\ Terminated
    /\ ret = 0
    /\ Did("load_metadata")
    /\ Did("dump_readme")
    /\ Cardinality(Pos("reference_close")) >= 2
    /\ Printed("complete")

====
